---- MODULE Spec2Model ----
(***************************************************************************)
(* Model of pandas/tseries/converter.py: the period unit converter, the    *)
(* granularity finders and the dynamic tick locator / formatter pair.      *)
(*                                                                         *)
(* Axis ordinates are Python floats.  They are modelled as fixed-point     *)
(* numbers counted in halves: the model value h stands for the float h/2,  *)
(* so 3 is 1.5 and 4 is 2.0.  Tick positions (info['val']) are integers    *)
(* and are kept as plain integers.                                         *)
(***************************************************************************)
EXTENDS Integers, Sequences, FiniteSets, TLC

VARIABLES
    freq,            \* self.freq of the locators and formatters of the axis
    axisView,        \* what axis.get_view_interval() returns now
    axisData,        \* what axis.get_data_interval() returns now
    view_interval,   \* plot_obj.view_interval
    date_axis_info,  \* plot_obj.date_axis_info
    formatdict,      \* formatdict of the major and of the minor formatter
    lastOp,          \* the operation that ran last, with its arguments
    lastRet,         \* what that operation returned or raised
    call,            \* pure-function harness: the function and its inputs
    ret              \* pure-function harness: the result

vars == <<freq, axisView, axisData, view_interval, date_axis_info,
          formatdict, lastOp, lastRet, call, ret>>

axisVars == <<freq, axisView, axisData, view_interval, date_axis_info,
              formatdict, lastOp, lastRet>>

(***************************************************************************)
(* Bounds of the model.                                                    *)
(***************************************************************************)
\* view and data limits of the axis machine are 0, 0.5 or MaxHalf halves
MaxHalf == 3
\* the finders are applied to ranges that start at most MaxStart periods
\* from ordinal 0 (on either side) and hold at most MaxSpan periods
MaxStart == 1
MaxSpan == 140

(***************************************************************************)
(* Python values.                                                          *)
(***************************************************************************)
None == <<>>
Some(x) == <<x>>

\* int(x) of a float: truncation toward zero
ToInt(h) == IF h >= 0 THEN h \div 2 ELSE -((-h) \div 2)
\* x % 1 > 0.0
HasFraction(h) == h % 2 # 0
\* the float of an integer
FromInt(n) == 2 * n

(***************************************************************************)
(* numpy helpers used by the finders.  An index array is an ascending      *)
(* sequence of 0-based indices, as nonzero() returns it.                   *)
(***************************************************************************)
InSeq(i, s) == \E k \in DOMAIN s : s[k] = i

\* (mask).nonzero()[0] over an array of n entries
nonzero(Mask(_), n) ==
    LET Hit(i) == Mask(i)
    IN  SelectSeq([k \in 1..n |-> k - 1], Hit)

\* mutant: the positions start one period late
zeros_late(lo, span) ==
    [i \in 0..(span - 1) |-> [val |-> lo + i + 1, maj |-> FALSE,
                              min |-> FALSE, fmt |-> ""]]

\* np.zeros(span, dtype=[val, maj, min, fmt]); info['val'] = arange(lo, ..)
zeros(lo, span) ==
    [i \in 0..(span - 1) |-> [val |-> lo + i, maj |-> FALSE, min |-> FALSE,
                              fmt |-> ""]]

\* info['maj'][idx] = v
SetMaj(info, idx, v) ==
    [i \in DOMAIN info |->
        IF InSeq(i, idx) THEN [info[i] EXCEPT !.maj = v] ELSE info[i]]

\* info['min'][idx] = v
SetMin(info, idx, v) ==
    [i \in DOMAIN info |->
        IF InSeq(i, idx) THEN [info[i] EXCEPT !.min = v] ELSE info[i]]

\* info['fmt'][idx] = v
SetFmt(info, idx, v) ==
    [i \in DOMAIN info |->
        IF InSeq(i, idx) THEN [info[i] EXCEPT !.fmt = v] ELSE info[i]]

\* info['min'] = True
SetMinAll(info, v) == [i \in DOMAIN info |-> [info[i] EXCEPT !.min = v]]

\* info_fmt[:] = v
SetFmtAll(info, v) == [i \in DOMAIN info |-> [info[i] EXCEPT !.fmt = v]]

\* the single index array [i]
One(i) == <<i>>

Size(info) == Cardinality(DOMAIN info)

(***************************************************************************)
(* Spacing heuristic.                                                      *)
(***************************************************************************)
_get_default_annual_spacing(nyears) ==
    IF nyears < 11 THEN <<1, 1>>
    ELSE IF nyears < 20 THEN <<1, 2>>
    ELSE IF nyears < 50 THEN <<1, 5>>
    ELSE IF nyears < 100 THEN <<5, 10>>
    ELSE IF nyears < 200 THEN <<5, 25>>
    ELSE IF nyears < 600 THEN <<10, 50>>
    ELSE LET factor == (nyears \div 1000) + 1
         IN  <<factor * 20, factor * 100>>

\* mutant: an empty index array is not told apart
has_level_label_nonempty(label_flags, vmin) ==
    IF /\ Len(label_flags) = 1
       /\ label_flags[1] = 0
       /\ HasFraction(vmin)
    THEN FALSE
    ELSE TRUE

has_level_label(label_flags, vmin) ==
    IF \/ Len(label_flags) = 0
       \/ (/\ Len(label_flags) = 1
           /\ label_flags[1] = 0
           /\ HasFraction(vmin))
    THEN FALSE
    ELSE TRUE

\* span <= 1.15 * periodsperyear in double arithmetic: the product is the
\* exact one rounded, which falls below the integer 115 for periodsperyear
\* 100 and is exact or not an integer for the other values in use
LeqFloat115(span, periodsperyear) ==
    IF periodsperyear = 100 THEN span < 115
    ELSE span <= periodsperyear + ((15 * periodsperyear) \div 100)

(***************************************************************************)
(* Granularity finders.  A TickInfo is a function over the 0-based indices *)
(* 0 .. span-1 of records [val, maj, min, fmt].                            *)
(***************************************************************************)
\* mutant: the bands end just below their limits
_monthly_band_strict(span, periodsperyear) ==
    IF LeqFloat115(span, periodsperyear) THEN 1
    ELSE IF 10 * span < 25 * periodsperyear THEN 2
    ELSE IF span < 4 * periodsperyear THEN 3
    ELSE IF span < 11 * periodsperyear THEN 4
    ELSE 5

\* the band of the monthly finder a span falls into, 1 to 5
_monthly_band(span, periodsperyear) ==
    IF LeqFloat115(span, periodsperyear) THEN 1
    ELSE IF 10 * span <= 25 * periodsperyear THEN 2
    ELSE IF span <= 4 * periodsperyear THEN 3
    ELSE IF span <= 11 * periodsperyear THEN 4
    ELSE 5

_monthly_finder(vmin, vmax, f) ==
    LET periodsperyear == 12
        band == _monthly_band(ToInt(vmax) - ToInt(vmin) + 1, periodsperyear)
        vmin_orig == vmin
        lo == ToInt(vmin)
        hi == ToInt(vmax)
        span == hi - lo + 1
        info0 == zeros(lo, span)
        dates_(i) == info0[i].val
        year_start == nonzero(LAMBDA i : dates_(i) % 12 = 0, span)
    IN  IF band = 1 THEN
            LET a == SetMaj(info0, year_start, TRUE)
                b == SetMinAll(a, TRUE)
                c == SetFmtAll(b, "%b")
                d == SetFmt(c, year_start, "%b\n%Y")
            IN  IF ~has_level_label(year_start, vmin_orig)
                THEN SetFmt(d, One(IF Size(info0) > 1 THEN 1 ELSE 0),
                            "%b\n%Y")
                ELSE d
        ELSE IF band = 2 THEN
            LET quarter_start == nonzero(LAMBDA i : dates_(i) % 3 = 0, span)
                a == SetMaj(info0, year_start, TRUE)
                b == SetFmt(a, quarter_start, "True")
                c == SetMinAll(b, TRUE)
                d == SetFmt(c, quarter_start, "%b")
            IN  SetFmt(d, year_start, "%b\n%Y")
        ELSE IF band = 3 THEN
            LET a == SetMaj(info0, year_start, TRUE)
                b == SetMinAll(a, TRUE)
                jan_or_jul == nonzero(LAMBDA i : \/ dates_(i) % 12 = 0
                                                 \/ dates_(i) % 12 = 6, span)
                c == SetFmt(b, jan_or_jul, "%b")
            IN  SetFmt(c, year_start, "%b\n%Y")
        ELSE IF band = 4 THEN
            LET quarter_start == nonzero(LAMBDA i : dates_(i) % 3 = 0, span)
                a == SetMaj(info0, year_start, TRUE)
                b == SetMin(a, quarter_start, TRUE)
            IN  SetFmt(b, year_start, "%Y")
        ELSE
            LET nyears == span \div periodsperyear
                anndef == _get_default_annual_spacing(nyears)
                min_anndef == anndef[1]
                maj_anndef == anndef[2]
                years(i) == (dates_(i) \div 12) + 1
                major_idx == SelectSeq(year_start,
                                 LAMBDA i : years(i) % maj_anndef = 0)
                minor_idx == SelectSeq(year_start,
                                 LAMBDA i : years(i) % min_anndef = 0)
                a == SetMaj(info0, major_idx, TRUE)
                b == SetMin(a, minor_idx, TRUE)
            IN  SetFmt(b, major_idx, "%Y")

_quarterly_finder(vmin, vmax, f) ==
    LET periodsperyear == 4
        vmin_orig == vmin
        lo == ToInt(vmin)
        hi == ToInt(vmax)
        span == hi - lo + 1
        info0 == zeros(lo, span)
        dates_(i) == info0[i].val
        year_start == nonzero(LAMBDA i : dates_(i) % 4 = 0, span)
    IN  IF 10 * span <= 35 * periodsperyear THEN
            LET a == SetMaj(info0, year_start, TRUE)
                b == SetMinAll(a, TRUE)
                c == SetFmtAll(b, "Q%q")
                d == SetFmt(c, year_start, "Q%q\n%F")
            IN  IF ~has_level_label(year_start, vmin_orig)
                THEN SetFmt(d, One(IF Size(info0) > 1 THEN 1 ELSE 0),
                            "Q%q\n%F")
                ELSE d
        ELSE IF span <= 11 * periodsperyear THEN
            LET a == SetMaj(info0, year_start, TRUE)
                b == SetMinAll(a, TRUE)
            IN  SetFmt(b, year_start, "%F")
        ELSE
            LET years(i) == (dates_(i) \div 4) + 1
                nyears == span \div periodsperyear
                anndef == _get_default_annual_spacing(nyears)
                min_anndef == anndef[1]
                maj_anndef == anndef[2]
                major_idx == SelectSeq(year_start,
                                 LAMBDA i : years(i) % maj_anndef = 0)
                minor_idx == SelectSeq(year_start,
                                 LAMBDA i : years(i) % min_anndef = 0)
                a == SetMaj(info0, major_idx, TRUE)
                b == SetMin(a, minor_idx, TRUE)
            IN  SetFmt(b, major_idx, "%F")

_annual_finder(vmin, vmax, f) ==
    LET lo == ToInt(vmin)
        hi == ToInt(vmax + FromInt(1))
        span == hi - lo + 1
        info0 == zeros(lo, span)
        dates_(i) == info0[i].val
        anndef == _get_default_annual_spacing(span)
        min_anndef == anndef[1]
        maj_anndef == anndef[2]
        major_idx == nonzero(LAMBDA i : dates_(i) % maj_anndef = 0, span)
        a == SetMaj(info0, major_idx, TRUE)
        b == SetMin(a, nonzero(LAMBDA i : dates_(i) % min_anndef = 0, span),
                    TRUE)
    IN  SetFmt(b, major_idx, "%Y")

(***************************************************************************)
(* Frequency registry (pandas.tseries.frequencies): the codes of FreqGroup *)
(* and the group of a code.                                                *)
(***************************************************************************)
FR_ANN == 1000
FR_QTR == 2000
FR_MTH == 3000
FR_WK == 4000
FR_BUS == 5000
FR_DAY == 6000
FR_HR == 7000
FR_MIN == 8000
FR_SEC == 9000
FR_UND == -10000

get_freq_group(f) == (f \div 1000) * 1000

(***************************************************************************)
(* Calendar service (pandas.tseries.period): the fields of the period with *)
(* a given ordinal.  Ordinal 0 is the period that holds 1970-01-01, in the *)
(* proleptic Gregorian calendar; the fields of a weekly or business-day    *)
(* period are those of its last day.                                       *)
(***************************************************************************)
\* the day, counted from 1970-01-01, whose date the period carries
PeriodDay(o, f) ==
    IF f = FR_SEC THEN o \div 86400
    ELSE IF f = FR_MIN THEN o \div 1440
    ELSE IF f = FR_HR THEN o \div 24
    ELSE IF f = FR_BUS THEN (((o + 3) \div 5) * 7) + ((o + 3) % 5) - 3
    ELSE IF get_freq_group(f) = FR_WK THEN (7 * o) + ((3 + (f - FR_WK)) % 7)
    ELSE o

\* year, month and day of month of a day counted from 1970-01-01, from
\* its 400-year era, its day of the era, year of the era and day of the
\* year (the year of the era starts on 1 March)
CivilOfDoy(era, yoe, doy) ==
    LET mp == ((5 * doy) + 2) \div 153
        mm == IF mp < 10 THEN mp + 3 ELSE mp - 9
    IN  [year |-> yoe + (era * 400) + (IF mm <= 2 THEN 1 ELSE 0),
         month |-> mm,
         day |-> doy - (((153 * mp) + 2) \div 5) + 1]

CivilOfYoe(era, doe, yoe) ==
    CivilOfDoy(era, yoe, doe - ((365 * yoe) + (yoe \div 4) - (yoe \div 100)))

CivilOfDoe(era, doe) ==
    CivilOfYoe(era, doe,
               (doe - (doe \div 1460) + (doe \div 36524) - (doe \div 146096))
                   \div 365)

CivilOfEra(z, era) == CivilOfDoe(era, z - (era * 146097))

CivilOfDay(d) == CivilOfEra(d + 719468, (d + 719468) \div 146097)

\* the day, counted from 1970-01-01, of 1 January of year y
JanFirst(y) ==
    LET p == y - 1
    IN  (365 * p) + (p \div 4) - (p \div 100) + (p \div 400) - 719162

\* ISO week number of a day: the week of the year of that week's Thursday
WeekOfDay(d) ==
    LET thursday == d - ((d + 3) % 7) + 3
    IN  ((thursday - JanFirst(CivilOfDay(thursday).year)) \div 7) + 1

\* a field of the period with ordinal o, whose date is day d, civil
FieldOfDate(name, o, f, d, civil) ==
    CASE name = "year" -> civil.year
      [] name = "quarter" -> ((civil.month - 1) \div 3) + 1
      [] name = "month" -> civil.month
      [] name = "week" -> WeekOfDay(d)
      [] name = "day" -> civil.day
      [] name = "hour" ->
            IF f = FR_SEC THEN (o % 86400) \div 3600
            ELSE IF f = FR_MIN THEN (o % 1440) \div 60
            ELSE IF f = FR_HR THEN o % 24
            ELSE 0
      [] name = "minute" ->
            IF f = FR_SEC THEN (o % 3600) \div 60
            ELSE IF f = FR_MIN THEN o % 60
            ELSE 0
      [] name = "second" -> IF f = FR_SEC THEN o % 60 ELSE 0

Field(name, o, f) ==
    FieldOfDate(name, o, f, PeriodDay(o, f), CivilOfDay(PeriodDay(o, f)))

\* period_break over the periods lo .. lo+span-1 of frequency f
period_break(lo, span, f, period) ==
    nonzero(LAMBDA i : Field(period, lo + i, f)
                           - Field(period, lo + i - 1, f) # 0, span)

(***************************************************************************)
(* Results of a call that may raise.                                       *)
(***************************************************************************)
Ok(info) == [ok |-> TRUE, info |-> info, exc |-> ""]
Raise(e) == [ok |-> FALSE, info |-> None, exc |-> e]

\* what stands for a TickInfo when indexing an empty index array raised
IndexError == [i \in {-1} |-> "IndexError"]

\* the same selection with the weekly constants for the code FR_WK alone
_daily_periods_exactweek(f) ==
    IF f >= FR_HR THEN
        IF f = FR_SEC THEN
            [ok |-> TRUE, day |-> 24 * 60 * 60, year |-> 365 * (24 * 60 * 60),
             month |-> 28 * (24 * 60 * 60)]
        ELSE IF f = FR_MIN THEN
            [ok |-> TRUE, day |-> 24 * 60, year |-> 365 * (24 * 60),
             month |-> 28 * (24 * 60)]
        ELSE IF f = FR_HR THEN
            [ok |-> TRUE, day |-> 24, year |-> 365 * 24, month |-> 28 * 24]
        ELSE [ok |-> FALSE, day |-> -1, year |-> 0, month |-> 0]
    ELSE IF f = FR_BUS THEN
        [ok |-> TRUE, day |-> -1, year |-> 261, month |-> 19]
    ELSE IF f = FR_DAY THEN
        [ok |-> TRUE, day |-> -1, year |-> 365, month |-> 28]
    ELSE IF f = FR_WK THEN
        [ok |-> TRUE, day |-> -1, year |-> 52, month |-> 3]
    ELSE IF f = FR_UND THEN
        [ok |-> TRUE, day |-> -1, year |-> 100, month |-> 10]
    ELSE [ok |-> FALSE, day |-> -1, year |-> 0, month |-> 0]

\* periodsperday, periodsperyear and periodspermonth of the daily finder
_daily_periods(f) ==
    IF f >= FR_HR THEN
        IF f = FR_SEC THEN
            [ok |-> TRUE, day |-> 24 * 60 * 60, year |-> 365 * (24 * 60 * 60),
             month |-> 28 * (24 * 60 * 60)]
        ELSE IF f = FR_MIN THEN
            [ok |-> TRUE, day |-> 24 * 60, year |-> 365 * (24 * 60),
             month |-> 28 * (24 * 60)]
        ELSE IF f = FR_HR THEN
            [ok |-> TRUE, day |-> 24, year |-> 365 * 24, month |-> 28 * 24]
        ELSE [ok |-> FALSE, day |-> -1, year |-> 0, month |-> 0]
    ELSE IF f = FR_BUS THEN
        [ok |-> TRUE, day |-> -1, year |-> 261, month |-> 19]
    ELSE IF f = FR_DAY THEN
        [ok |-> TRUE, day |-> -1, year |-> 365, month |-> 28]
    ELSE IF get_freq_group(f) = FR_WK THEN
        [ok |-> TRUE, day |-> -1, year |-> 52, month |-> 3]
    ELSE IF f = FR_UND THEN
        [ok |-> TRUE, day |-> -1, year |-> 100, month |-> 10]
    ELSE [ok |-> FALSE, day |-> -1, year |-> 0, month |-> 0]

first_label(label_flags, vmin_orig) ==
    IF label_flags[1] = 0 /\ Len(label_flags) > 1 /\ HasFraction(vmin_orig)
    THEN label_flags[2]
    ELSE label_flags[1]

\* info_fmt[first_label(label_flags)] = v
SetFirstLabel(info, label_flags, vmin_orig, v) ==
    IF Len(label_flags) = 0 THEN IndexError
    ELSE SetFmt(info, One(first_label(label_flags, vmin_orig)), v)

\* the assignments of _hour_finder, given its index arrays
_hour_labels(info, day_start, labelled, year_start, vmin_orig, force) ==
    LET a == SetMaj(info, day_start, TRUE)
        b == SetMin(a, labelled, TRUE)
        c == SetFmt(b, labelled, "%H:%M")
        d == SetFmt(c, day_start, "%H:%M\n%d-%b")
        e == SetFmt(d, year_start, "%H:%M\n%d-%b\n%Y")
    IN  IF force /\ ~has_level_label(year_start, vmin_orig)
        THEN SetFirstLabel(e, day_start, vmin_orig, "%H:%M\n%d-%b\n%Y")
        ELSE e

_hour_finder(info, lo, span, f, vmin_orig, label_interval, force_year_start) ==
    _hour_labels(info,
                 period_break(lo, span, f, "day"),
                 nonzero(LAMBDA i :
                     /\ Field("hour", lo + i, f)
                            - Field("hour", lo + i - 1, f) # 0
                     /\ Field("hour", lo + i, f) % label_interval = 0,
                     span),
                 period_break(lo, span, f, "year"),
                 vmin_orig, force_year_start)

\* the assignments of _minute_finder, given its index arrays
_minute_labels(info, day_start, hour_start, labelled, year_start) ==
    LET a == SetMaj(info, hour_start, TRUE)
        b == SetMin(a, labelled, TRUE)
        c == SetFmt(b, labelled, "%H:%M")
        d == SetFmt(c, day_start, "%H:%M\n%d-%b")
    IN  SetFmt(d, year_start, "%H:%M\n%d-%b\n%Y")

_minute_finder(info, lo, span, f, label_interval) ==
    _minute_labels(info,
                   period_break(lo, span, f, "day"),
                   period_break(lo, span, f, "hour"),
                   nonzero(LAMBDA i :
                       /\ Field("minute", lo + i, f)
                              - Field("minute", lo + i - 1, f) # 0
                       /\ Field("minute", lo + i, f) % label_interval = 0,
                       span),
                   period_break(lo, span, f, "year"))

\* the assignments of _second_finder, given its index arrays
_second_labels(info, day_start, minute_start, labelled, year_start) ==
    LET a == SetMaj(info, minute_start, TRUE)
        b == SetMin(a, labelled, TRUE)
        c == SetFmt(b, labelled, "%H:%M:%S")
        d == SetFmt(c, day_start, "%H:%M:%S\n%d-%b")
    IN  SetFmt(d, year_start, "%H:%M:%S\n%d-%b\n%Y")

_second_finder(info, lo, span, f, label_interval) ==
    _second_labels(info,
                   period_break(lo, span, f, "day"),
                   period_break(lo, span, f, "minute"),
                   nonzero(LAMBDA i :
                       /\ Field("second", lo + i, f)
                              - Field("second", lo + i - 1, f) # 0
                       /\ Field("second", lo + i, f) % label_interval = 0,
                       span),
                   period_break(lo, span, f, "year"))

\* the branch that Case 1 of the daily finder takes: which finder it runs,
\* at which label interval, and whether it forces a year label
_daily_case1_branch(span, periodsperday) ==
    LET Second(n) == [finder |-> "second", interval |-> n, force |-> FALSE]
        Minute(n) == [finder |-> "minute", interval |-> n, force |-> FALSE]
        Hour(n, force) == [finder |-> "hour", interval |-> n, force |-> force]
    IN  IF 12000 * span < periodsperday THEN Second(1)
        ELSE IF 6000 * span < periodsperday THEN Second(2)
        ELSE IF 2400 * span < periodsperday THEN Second(5)
        ELSE IF 1200 * span < periodsperday THEN Second(10)
        ELSE IF 800 * span < periodsperday THEN Second(15)
        ELSE IF 400 * span < periodsperday THEN Second(30)
        ELSE IF 150 * span < periodsperday THEN Minute(1)
        ELSE IF 70 * span < periodsperday THEN Minute(2)
        ELSE IF 24 * span < periodsperday THEN Minute(5)
        ELSE IF 12 * span < periodsperday THEN Minute(15)
        ELSE IF 6 * span < periodsperday THEN Minute(30)
        ELSE IF 5 * span < 2 * periodsperday THEN Hour(1, FALSE)
        ELSE IF 3 * span < 2 * periodsperday THEN Hour(2, FALSE)
        ELSE IF 4 * span < 5 * periodsperday THEN Hour(3, FALSE)
        ELSE IF 2 * span < 5 * periodsperday THEN Hour(6, TRUE)
        ELSE IF span < periodsperday * 4 THEN Hour(12, TRUE)
        ELSE [finder |-> "day", interval |-> 0, force |-> FALSE]

\* the assignments of the last branch of Case 1, given its index arrays
_daily_case1_days(info, day_start, month_start, year_start, vmin_orig) ==
    LET a == SetMaj(info, month_start, TRUE)
        b == SetMin(a, day_start, TRUE)
        c == SetFmt(b, day_start, "%d")
        d == SetFmt(c, month_start, "%d\n%b")
        e == SetFmt(d, year_start, "%d\n%b\n%Y")
    IN  IF ~has_level_label(year_start, vmin_orig) THEN
            IF ~has_level_label(month_start, vmin_orig)
            THEN SetFirstLabel(e, day_start, vmin_orig, "%d\n%b\n%Y")
            ELSE SetFirstLabel(e, month_start, vmin_orig, "%d\n%b\n%Y")
        ELSE e

\* Case 1 of the daily finder: span <= periodspermonth
_daily_case1(info, lo, span, f, vmin_orig, branch) ==
    IF branch.finder = "second" THEN
        _second_finder(info, lo, span, f, branch.interval)
    ELSE IF branch.finder = "minute" THEN
        _minute_finder(info, lo, span, f, branch.interval)
    ELSE IF branch.finder = "hour" THEN
        _hour_finder(info, lo, span, f, vmin_orig, branch.interval,
                     branch.force)
    ELSE
        _daily_case1_days(info,
                          period_break(lo, span, f, "day"),
                          period_break(lo, span, f, "month"),
                          period_break(lo, span, f, "year"),
                          vmin_orig)

\* mutant: no label is moved to the first visible tick
_daily_case2_nofirst(info, f, month_start, day_start, week_start, year_start, vmin_orig) ==
    LET a == SetMaj(info, month_start, TRUE)
        b == IF f < FR_HR THEN SetMinAll(a, TRUE)
             ELSE SetMin(a, day_start, TRUE)
        c == SetFmt(b, week_start, "%d")
        d == SetFmt(c, month_start, "\n\n%b")
    IN  SetFmt(d, year_start, "\n\n%b\n%Y")

\* Case 2 of the daily finder (span <= periodsperyear // 4), given its
\* index arrays
_daily_case2(info, f, month_start, day_start, week_start, year_start, vmin_orig) ==
    LET a == SetMaj(info, month_start, TRUE)
        b == IF f < FR_HR THEN SetMinAll(a, TRUE)
             ELSE SetMin(a, day_start, TRUE)
        c == SetFmt(b, week_start, "%d")
        d == SetFmt(c, month_start, "\n\n%b")
        e == SetFmt(d, year_start, "\n\n%b\n%Y")
    IN  IF ~has_level_label(year_start, vmin_orig) THEN
            IF ~has_level_label(month_start, vmin_orig)
            THEN SetFirstLabel(e, week_start, vmin_orig, "\n\n%b\n%Y")
            ELSE SetFirstLabel(e, month_start, vmin_orig, "\n\n%b\n%Y")
        ELSE e

\* Case 3 of the daily finder (span <= 1.15 * periodsperyear)
_daily_case3(info, year_start, month_start, week_start, vmin_orig) ==
    LET a == SetMaj(info, month_start, TRUE)
        b == SetMin(a, week_start, TRUE)
        c == SetMin(b, year_start, FALSE)
        d == SetMin(c, month_start, FALSE)
        e == SetFmt(d, month_start, "%b")
        g == SetFmt(e, year_start, "%b\n%Y")
    IN  IF ~has_level_label(year_start, vmin_orig)
        THEN SetFirstLabel(g, month_start, vmin_orig, "%b\n%Y")
        ELSE g

\* span <= 2.5 * periodsperyear
_daily_case4(info, year_start, quarter_start, month_start) ==
    LET a == SetMaj(info, quarter_start, TRUE)
        b == SetMin(a, month_start, TRUE)
        c == SetFmt(b, quarter_start, "%b")
    IN  SetFmt(c, year_start, "%b\n%Y")

\* span <= 4 * periodsperyear
_daily_case5(info, year_start, month_start, jan_or_jul) ==
    LET a == SetMaj(info, year_start, TRUE)
        b == SetMin(a, month_start, TRUE)
        c == SetMin(b, year_start, FALSE)
        d == SetFmt(c, jan_or_jul, "%b")
    IN  SetFmt(d, year_start, "%b\n%Y")

\* span <= 11 * periodsperyear
_daily_case6(info, year_start, quarter_start) ==
    LET a == SetMaj(info, year_start, TRUE)
        b == SetMin(a, quarter_start, TRUE)
        c == SetMin(b, year_start, FALSE)
    IN  SetFmt(c, year_start, "%Y")

\* longer spans
_daily_case7(info, major_idx, minor_idx) ==
    LET a == SetMaj(info, major_idx, TRUE)
        b == SetMin(a, minor_idx, TRUE)
    IN  SetFmt(b, major_idx, "%Y")

\* the year_start entries whose year is a multiple of anndef
_daily_years(lo, span, f, anndef) ==
    SelectSeq(period_break(lo, span, f, "year"),
              LAMBDA i : Field("year", lo + i, f) % anndef = 0)

\* the body of the daily finder once the period constants are chosen, on
\* the periods lo .. lo + span - 1
_daily_cases(info, lo, span, f, vmin_orig, per) ==
    IF span <= per.month THEN
        _daily_case1(info, lo, span, f, vmin_orig,
                     _daily_case1_branch(span, per.day))
    ELSE IF span <= per.year \div 4 THEN
        _daily_case2(info, f,
                     period_break(lo, span, f, "month"),
                     period_break(lo, span, f, "day"),
                     period_break(lo, span, f, "week"),
                     period_break(lo, span, f, "year"),
                     vmin_orig)
    ELSE IF LeqFloat115(span, per.year) THEN
        _daily_case3(info,
                     period_break(lo, span, f, "year"),
                     period_break(lo, span, f, "month"),
                     period_break(lo, span, f, "week"),
                     vmin_orig)
    ELSE IF 2 * span <= 5 * per.year THEN
        _daily_case4(info,
                     period_break(lo, span, f, "year"),
                     period_break(lo, span, f, "quarter"),
                     period_break(lo, span, f, "month"))
    ELSE IF span <= 4 * per.year THEN
        _daily_case5(info,
                     period_break(lo, span, f, "year"),
                     period_break(lo, span, f, "month"),
                     SelectSeq(period_break(lo, span, f, "month"),
                               LAMBDA i : \/ Field("month", lo + i, f) = 1
                                          \/ Field("month", lo + i, f) = 7))
    ELSE IF span <= 11 * per.year THEN
        _daily_case6(info,
                     period_break(lo, span, f, "year"),
                     period_break(lo, span, f, "quarter"))
    ELSE
        _daily_case7(info,
            _daily_years(lo, span, f,
                _get_default_annual_spacing(span \div per.year)[2]),
            _daily_years(lo, span, f,
                _get_default_annual_spacing(span \div per.year)[1]))

_daily_info(vmin, vmax, f, per) ==
    LET vmin_orig == vmin
        lo == ToInt(vmin)
        hi == ToInt(vmax)
        span == hi - lo + 1
        info0 == zeros(lo, span)
    IN  _daily_cases(SetMaj(info0, <<0, span - 1>>, TRUE), lo, span, f,
                     vmin_orig, per)

\* the TickInfo returned, or the IndexError raised on the way
_daily_result(info) ==
    IF -1 \in DOMAIN info THEN Raise("IndexError") ELSE Ok(info)

_daily_finder(vmin, vmax, f) ==
    IF ~_daily_periods(f).ok THEN Raise("ValueError")
    ELSE _daily_result(_daily_info(vmin, vmax, f, _daily_periods(f)))

(***************************************************************************)
(* Finder dispatch.  A finder is named by a string; "" is no finder.       *)
(***************************************************************************)
Found(name) == [ok |-> TRUE, finder |-> name, exc |-> ""]
Unsupported == [ok |-> FALSE, finder |-> "", exc |-> "NotImplementedError"]

\* mutant: the monthly finder is chosen by group, like the annual and the
\* quarterly one
get_finder_bygroup(f) ==
    LET fgroup == get_freq_group(f)
    IN  IF fgroup = FR_ANN THEN Found("_annual_finder")
        ELSE IF fgroup = FR_QTR THEN Found("_quarterly_finder")
        ELSE IF fgroup = FR_MTH THEN Found("_monthly_finder")
        ELSE IF (f >= FR_BUS) \/ (f = FR_UND) \/ (fgroup = FR_WK)
             THEN Found("_daily_finder")
        ELSE Unsupported

get_finder(f) ==
    LET fgroup == get_freq_group(f)
    IN  IF fgroup = FR_ANN THEN Found("_annual_finder")
        ELSE IF fgroup = FR_QTR THEN Found("_quarterly_finder")
        ELSE IF f = FR_MTH THEN Found("_monthly_finder")
        ELSE IF (f >= FR_BUS) \/ (f = FR_UND) \/ (fgroup = FR_WK)
             THEN Found("_daily_finder")
        ELSE Unsupported

\* self.finder(vmin, vmax, self.freq)
finder(name, vmin, vmax, f) ==
    IF name = "_annual_finder" THEN Ok(_annual_finder(vmin, vmax, f))
    ELSE IF name = "_quarterly_finder" THEN Ok(_quarterly_finder(vmin, vmax, f))
    ELSE IF name = "_monthly_finder" THEN Ok(_monthly_finder(vmin, vmax, f))
    ELSE _daily_finder(vmin, vmax, f)

(***************************************************************************)
(* Pure-function harness: a call is drawn, then applied.                   *)
(***************************************************************************)
Pending == [ok |-> FALSE, info |-> None, exc |-> "pending"]
NoCall == [fn |-> "none"]
NoOp == [name |-> "init", isminor |-> FALSE, x |-> 0, twice |-> FALSE,
         moved |-> FALSE]
NoRet == [kind |-> "none", locs |-> <<>>, label |-> <<>>, exc |-> "",
          calls |-> 0, first |-> [locs |-> <<>>, label |-> <<>>]]

\* the axis machine at rest, while a pure function is exercised
AxisIdle ==
    /\ freq = FR_MTH
    /\ axisView = <<0, 0>>
    /\ axisData = <<0, 0>>
    /\ view_interval = None
    /\ date_axis_info = None
    /\ formatdict = [m \in BOOLEAN |-> None]
    /\ lastOp = NoOp
    /\ lastRet = NoRet

\* the frequencies each finder is exercised with
FinderFreqs(name) ==
    IF name = "_annual_finder" THEN {FR_ANN}
    ELSE IF name = "_quarterly_finder" THEN {FR_QTR}
    ELSE IF name = "_monthly_finder" THEN {FR_MTH}
    ELSE {FR_WK, FR_WK + 1, FR_BUS, FR_DAY, FR_HR, FR_MIN, FR_SEC, FR_UND}

FinderNames ==
    {"_annual_finder", "_quarterly_finder", "_monthly_finder", "_daily_finder"}

\* ranges vmin <= vmax, in halves
FinderStarts == (-(2 * MaxStart) - 1) .. ((2 * MaxStart) + 1)

\* whether c is a call of a finder on a range vmin <= vmax, in halves, of
\* at most MaxSpan periods
IsFinderCall(c) ==
    /\ c.f \in FinderFreqs(c.name)
    /\ c.vmin <= c.vmax
    /\ ToInt(c.vmax) - ToInt(c.vmin) + 1 <= MaxSpan

InitFinder ==
    /\ AxisIdle
    /\ call \in [fn : {"finder"}, name : FinderNames,
                 f : UNION {FinderFreqs(n) : n \in FinderNames},
                 vmin : FinderStarts,
                 vmax : (-(2 * MaxStart) - 1)
                            .. ((2 * MaxStart) + (2 * MaxSpan))]
    /\ IsFinderCall(call)
    /\ ret = Pending

ApplyFinder ==
    /\ call.fn = "finder"
    /\ ret.exc = "pending"
    /\ ret' = finder(call.name, call.vmin, call.vmax, call.f)
    /\ UNCHANGED <<call, axisVars>>

NextFinder == ApplyFinder

SpecFinder == InitFinder /\ [][NextFinder]_vars

(***************************************************************************)
(* The dynamic locator and formatter of one axis.  The axis carries a      *)
(* major and a minor locator and a major and a minor formatter (isminor    *)
(* FALSE / TRUE), all built for the same frequency and sharing plot_obj.   *)
(***************************************************************************)
\* what an operation returned: the tick positions or interval (locs), the
\* label (<<>> is the empty string), the exception raised (exc) and how
\* many times it ran the finder (calls)
Ret(kind, locs, label, exc, calls) ==
    [kind |-> kind, locs |-> locs, label |-> label, exc |-> exc,
     calls |-> calls]

Op(name, isminor, x) == [name |-> name, isminor |-> isminor, x |-> x]

\* np.compress(locator[flag], locator['val'])
compress_val(info, isminor) ==
    LET keep == nonzero(LAMBDA i : IF isminor THEN info[i].min
                                   ELSE info[i].maj, Size(info))
    IN  [k \in 1..Len(keep) |-> info[keep[k]].val]

\* mutant: the cache is dropped on every call
Invalidate_always(vi, stored, cache) == None

\* mutant: the cache is never dropped
Invalidate_never(vi, stored, cache) == cache

\* vi != self.plot_obj.view_interval: self.plot_obj.date_axis_info = None
Invalidate(vi, stored, cache) == IF Some(vi) # stored THEN None ELSE cache

\* if vmax < vmin: vmin, vmax = vmax, vmin
Normalize(vi) == IF vi[2] < vi[1] THEN <<vi[2], vi[1]>> ELSE vi

\* plot_obj.date_axis_info = self.finder(...): the cache after the finder
\* returned or raised r
Assigned(r) ==
    [ok |-> r.ok, cache |-> IF r.ok THEN Some(r.info) ELSE None,
     exc |-> r.exc, calls |-> 1]

\* the cache test shared by _get_default_locs and _set_default_format:
\* the finder runs only when plot_obj.date_axis_info is None
Refresh(cache, vmin, vmax, f) ==
    IF cache = None
    THEN Assigned(finder(get_finder(f).finder, vmin, vmax, f))
    ELSE [ok |-> TRUE, cache |-> cache, exc |-> "", calls |-> 0]

\* what _get_default_locs returns once the cache is r
_default_locs(isminor, r) ==
    IF r.ok
    THEN [cache |-> r.cache,
          ret |-> Ret("locs", compress_val(r.cache[1], isminor), <<>>, "",
                      r.calls)]
    ELSE [cache |-> r.cache,
          ret |-> Ret("raise", <<>>, <<>>, r.exc, r.calls)]

\* TimeSeries_DateLocator._get_default_locs
_get_default_locs(isminor, cache, vmin, vmax, f) ==
    _default_locs(isminor, Refresh(cache, vmin, vmax, f))

\* matplotlib.transforms.nonsingular on two distinct integers: it swaps a
\* decreasing pair; the interval is at least 1 wide, so it is not tiny and
\* is not expanded
nonsingular(vmin, vmax) ==
    IF vmax < vmin THEN <<vmax, vmin>> ELSE <<vmin, vmax>>

\* what autoscale makes of r, the result of _get_default_locs
_autoscale_limits(r) ==
    LET locs == r.ret.locs
    IN  IF r.ret.kind = "raise" THEN r
        ELSE IF Len(locs) = 0
        THEN [cache |-> r.cache,
              ret |-> Ret("raise", <<>>, <<>>, "IndexError", r.ret.calls)]
        ELSE LET lo == locs[1]
                 hi == locs[Len(locs)]
             IN  [cache |-> r.cache,
                  ret |-> Ret("interval",
                              IF lo = hi THEN nonsingular(lo - 1, hi + 1)
                              ELSE nonsingular(lo, hi),
                              <<>>, "", r.ret.calls)]

\* TimeSeries_DateLocator.autoscale on the data interval (vmin, vmax): the
\* cache it leaves and what it returns
autoscale(isminor, cache, vmin, vmax, f) ==
    _autoscale_limits(_get_default_locs(isminor, cache, vmin, vmax, f))

\* mutant: the minor formatter keeps the positions that are also major
_set_default_format_allminor(isminor, info) ==
    LET keep == nonzero(LAMBDA i : IF isminor THEN info[i].min
                                   ELSE info[i].maj, Size(info))
    IN  [x \in {info[keep[k]].val : k \in 1..Len(keep)} |->
            info[(CHOOSE i \in DOMAIN info : info[i].val = x)].fmt]

\* TimeSeries_DateFormatter._set_default_format: the new formatdict
_set_default_format(isminor, info) ==
    LET keep == nonzero(LAMBDA i : IF isminor
                                   THEN info[i].min /\ ~info[i].maj
                                   ELSE info[i].maj, Size(info))
    IN  [x \in {info[keep[k]].val : k \in 1..Len(keep)} |->
            info[(CHOOSE i \in DOMAIN info : info[i].val = x)].fmt]

\* whether the float x is a key of the dictionary d of integer positions
HasKey(d, x) == ~HasFraction(x) /\ ToInt(x) \in DOMAIN d

\* self.formatdict.pop(x, ''): the value, and the dictionary left
pop_value(d, x) == IF HasKey(d, x) THEN d[ToInt(x)] ELSE ""
\* mutant: the entry is read and left in place
pop_rest_get(d, x) == d

pop_rest(d, x) ==
    IF HasKey(d, x) THEN [k \in (DOMAIN d) \ {ToInt(x)} |-> d[k]] ELSE d

\* Period(ordinal=int(x), freq=self.freq).strftime(fmt): the text is kept
\* as the pattern and the period it is rendered for; an empty pattern
\* renders the empty string
strftime(x, fmt) == IF fmt = "" THEN <<>> ELSE <<fmt, ToInt(x)>>

(***************************************************************************)
(* The axis machine.                                                       *)
(***************************************************************************)
\* the frequencies an axis is configured with
AxisFreqs == {FR_MTH, FR_DAY}

Halves == {0, 1, MaxHalf}
Views == Halves \X Halves
DataIntervals == {<<0, MaxHalf>>}
QueryPositions == 0..1

\* the history the claims observe: the last operation (twice: the operation
\* before it was the same one, with the same arguments; moved: it is a
\* locator __call__ or a set_locs that began with view limits other than
\* the stored range) and its return (first: what the operation before
\* returned, when twice)
Observe(op, r) ==
    LET same == /\ lastOp.name = op.name
                /\ lastOp.isminor = op.isminor
                /\ lastOp.x = op.x
    IN  /\ lastOp' = [name |-> op.name, isminor |-> op.isminor, x |-> op.x,
                      twice |-> same,
                      moved |-> /\ op.name \in {"__call__", "set_locs"}
                                /\ view_interval # Some(axisView)]
        /\ lastRet' = [kind |-> r.kind, locs |-> r.locs, label |-> r.label,
                       exc |-> r.exc, calls |-> r.calls,
                       first |-> IF same
                                 THEN [locs |-> lastRet.locs,
                                       label |-> lastRet.label]
                                 ELSE [locs |-> <<>>, label |-> <<>>]]

Init ==
    /\ freq \in AxisFreqs
    /\ get_finder(freq).ok
    /\ axisView \in Views
    /\ axisData \in DataIntervals
    /\ view_interval = None
    /\ date_axis_info = None
    /\ formatdict = [m \in BOOLEAN |-> None]
    /\ lastOp = NoOp
    /\ lastRet = NoRet
    /\ call = NoCall
    /\ ret = Pending

\* the host library zooms or pans: the view limits of the axis change
SetView(v) ==
    /\ v # axisView
    /\ axisView' = v
    /\ Observe(Op("set_view", FALSE, 0), Ret("none", <<>>, <<>>, "", 0))
    /\ UNCHANGED <<freq, axisData, view_interval, date_axis_info, formatdict,
                   call, ret>>

\* the plotting code resets the cache (plot_obj.date_axis_info = None)
ResetCache ==
    /\ date_axis_info' = None
    /\ Observe(Op("reset", FALSE, 0), Ret("none", <<>>, <<>>, "", 0))
    /\ UNCHANGED <<freq, axisView, axisData, view_interval, formatdict,
                   call, ret>>

\* TimeSeries_DateLocator.__call__ in dynamic mode
LocatorCall(isminor) ==
    LET vi == axisView
        cache == Invalidate(vi, view_interval, date_axis_info)
        n == Normalize(vi)
    IN  \E r \in {_get_default_locs(isminor, cache, n[1], n[2], freq)} :
            /\ view_interval' = Some(vi)
            /\ date_axis_info' = r.cache
            /\ Observe(Op("__call__", isminor, 0), r.ret)
            /\ UNCHANGED <<freq, axisView, axisData, formatdict, call, ret>>

\* TimeSeries_DateLocator.autoscale
Autoscale(isminor) ==
    \E r \in {autoscale(isminor, date_axis_info, axisData[1], axisData[2],
                        freq)} :
        /\ date_axis_info' = r.cache
        /\ Observe(Op("autoscale", isminor, 0), r.ret)
        /\ UNCHANGED <<freq, axisView, axisData, view_interval, formatdict,
                       call, ret>>

\* TimeSeries_DateFormatter.set_locs
SetLocs(isminor) ==
    LET vi == axisView
        cache == Invalidate(vi, view_interval, date_axis_info)
        n == Normalize(vi)
    IN  \E r \in {Refresh(cache, n[1], n[2], freq)} :
            /\ view_interval' = Some(vi)
            /\ date_axis_info' = r.cache
            /\ formatdict' =
                  IF r.ok
                  THEN [formatdict EXCEPT
                           ![isminor] = Some(_set_default_format(isminor,
                                                                 r.cache[1]))]
                  ELSE formatdict
            /\ Observe(Op("set_locs", isminor, 0),
                       IF r.ok THEN Ret("none", <<>>, <<>>, "", r.calls)
                       ELSE Ret("raise", <<>>, <<>>, r.exc, r.calls))
            /\ UNCHANGED <<freq, axisView, axisData, call, ret>>

\* TimeSeries_DateFormatter.__call__
FormatterCall(isminor, x) ==
    /\ IF formatdict[isminor] = None
       THEN /\ formatdict' = formatdict
            /\ Observe(Op("format", isminor, x),
                       Ret("label", <<>>, <<>>, "", 0))
       ELSE LET d == formatdict[isminor][1]
                fmt == pop_value(d, x)
            IN  /\ formatdict' =
                       [formatdict EXCEPT ![isminor] = Some(pop_rest(d, x))]
                /\ Observe(Op("format", isminor, x),
                           Ret("label", <<>>, strftime(x, fmt), "", 0))
    /\ UNCHANGED <<freq, axisView, axisData, view_interval, date_axis_info,
                   call, ret>>

Next ==
    \/ \E v \in Views : SetView(v)
    \/ ResetCache
    \/ \E m \in BOOLEAN : LocatorCall(m)
    \/ \E m \in BOOLEAN : Autoscale(m)
    \/ \E m \in BOOLEAN : SetLocs(m)
    \/ \E m \in BOOLEAN, x \in QueryPositions : FormatterCall(m, x)

Spec == Init /\ [][Next]_vars

(***************************************************************************)
(* get_finder on its own (specification SpecGetFinder): one call on a      *)
(* frequency code.                                                         *)
(***************************************************************************)
MaxCode == 10001

InitGetFinder ==
    /\ AxisIdle
    /\ call \in [fn : {"get_finder"}, f : (-MaxCode) .. MaxCode]
    /\ ret = Pending

ApplyGetFinder ==
    /\ call.fn = "get_finder"
    /\ ret.exc = "pending"
    /\ ret' = get_finder(call.f)
    /\ UNCHANGED <<call, axisVars>>

NextGetFinder == ApplyGetFinder

SpecGetFinder == InitGetFinder /\ [][NextGetFinder]_vars

(***************************************************************************)
(* autoscale on its own (specification SpecAutoscale): one call of a       *)
(* fresh locator (no TickInfo cached) of an axis whose data interval is    *)
(* dmin <= dmax.                                                           *)
(***************************************************************************)
MaxDataSpan == 30

AutoscaleFreqs ==
    {FR_ANN, FR_QTR, FR_MTH, FR_WK, FR_BUS, FR_DAY, FR_HR, FR_MIN, FR_SEC,
     FR_UND}

InitAutoscale ==
    /\ call \in [fn : {"autoscale"}, f : AutoscaleFreqs, isminor : BOOLEAN,
                 vmin : FinderStarts,
                 vmax : (-(2 * MaxStart) - 1)
                            .. ((2 * MaxStart) + (2 * MaxDataSpan))]
    /\ call.vmin <= call.vmax
    /\ ToInt(call.vmax) - ToInt(call.vmin) + 1 <= MaxDataSpan
    /\ ret = Pending
    /\ freq = call.f
    /\ axisData = <<call.vmin, call.vmax>>
    /\ axisView = <<0, 0>>
    /\ view_interval = None
    /\ date_axis_info = None
    /\ formatdict = [m \in BOOLEAN |-> None]
    /\ lastOp = NoOp
    /\ lastRet = NoRet

\* autoscale returns or raises, and leaves the TickInfo it built in the
\* cache
ApplyAutoscale ==
    /\ call.fn = "autoscale"
    /\ ret.exc = "pending"
    /\ \E r \in {autoscale(call.isminor, date_axis_info, axisData[1],
                            axisData[2], freq)} :
          /\ ret' = r.ret
          /\ date_axis_info' = r.cache
    /\ UNCHANGED <<call, freq, axisView, axisData, view_interval, formatdict,
                   lastOp, lastRet>>

NextAutoscale == ApplyAutoscale

SpecAutoscale == InitAutoscale /\ [][NextAutoscale]_vars

(***************************************************************************)
(* PeriodConverter.convert (specification SpecConvert): one call on a      *)
(* value and an axis.  A value is a record: its kind (what the isinstance  *)
(* tests of the code tell apart), an identity, and for a container its     *)
(* items.  A period ordinal is kept symbolic: how it was obtained          *)
(* (via "asfreq" of a Period, or via "Period" constructed from the value), *)
(* of which kind of value, at which frequency.                             *)
(***************************************************************************)
MaxItems == 2
MaxId == 1

\* str, datetime, Period, date, time: the valid_types of convert
ValidKinds == {"Period", "str", "datetime", "date", "time"}
NumericKinds == {"int", "float"}
\* "other" is any object of another type
ScalarKinds == ValidKinds \cup NumericKinds \cup {"None", "other"}
\* an item of a container can also be an ndarray of size 1, or a tuple
ItemKinds == ScalarKinds \cup {"ndarray1", "tuple"}
SequenceKinds == {"list", "tuple", "ndarray"}

Scalar(kind, id) ==
    [kind |-> kind, id |-> id, via |-> "", of |-> "", freq |-> 0,
     items |-> <<>>]
Container(kind, items) ==
    [kind |-> kind, id |-> 0, via |-> "", of |-> "", freq |-> 0,
     items |-> items]
Ordinal(via, v, f) ==
    [kind |-> "ordinal", id |-> v.id, via |-> via, of |-> v.kind,
     freq |-> f, items |-> <<>>]

Returns(v) == [exc |-> "", val |-> Some(v)]
Fails(e) == [exc |-> e, val |-> None]

get_datevalue(date, f) ==
    IF date.kind = "Period" THEN Returns(Ordinal("asfreq", date, f))
    ELSE IF date.kind \in {"str", "datetime", "date", "time"}
         THEN Returns(Ordinal("Period", date, f))
    ELSE IF date.kind \in {"int", "float", "ndarray1"} THEN Returns(date)
    ELSE IF date.kind = "None" THEN Returns(Scalar("None", date.id))
    \* "Unrecognizable date '%s'" % date: a tuple is taken as the argument
    \* list of the format, which has one place
    ELSE IF date.kind = "tuple" /\ Len(date.items) # 1
         THEN Fails("TypeError")
    ELSE Fails("ValueError")

\* the conversions of the items, left to right, up to the first that fails
MapDatevalue(items, f) ==
    LET rs == [i \in DOMAIN items |-> get_datevalue(items[i], f)]
    IN  IF \E i \in DOMAIN rs : rs[i].exc # ""
        THEN Fails(rs[CHOOSE i \in DOMAIN rs :
                        /\ rs[i].exc # ""
                        /\ \A j \in DOMAIN rs : j < i => rs[j].exc = ""].exc)
        ELSE Returns([i \in DOMAIN rs |-> rs[i].val[1]])

\* mutant: the axis is not asked for its frequency
convert_anyaxis(values, hasfreq, f) ==
    IF values.kind \in ValidKinds \cup NumericKinds
    THEN get_datevalue(values, f)
    ELSE IF values.kind = "Index"
    THEN LET r == MapDatevalue(values.items, f)
         IN  IF r.exc # "" THEN r
             ELSE Returns(Container("Index.map", r.val[1]))
    ELSE IF values.kind \in SequenceKinds
    THEN LET r == MapDatevalue(values.items, f)
         IN  IF r.exc # "" THEN r ELSE Returns(Container("list", r.val[1]))
    ELSE Returns(values)

convert(values, hasfreq, f) ==
    IF ~hasfreq THEN Fails("TypeError")
    ELSE IF values.kind \in ValidKinds \cup NumericKinds
    THEN get_datevalue(values, f)
    ELSE IF values.kind = "Index"
    THEN LET r == MapDatevalue(values.items, f)
         IN  IF r.exc # "" THEN r
             ELSE Returns(Container("Index.map", r.val[1]))
    ELSE IF values.kind \in SequenceKinds
    THEN LET r == MapDatevalue(values.items, f)
         IN  IF r.exc # "" THEN r ELSE Returns(Container("list", r.val[1]))
    ELSE Returns(values)

ConvertFreqs == {FR_MTH, FR_DAY}

\* the items of the containers: one value of each kind, and the tuples of
\* no, one and two integers
Items ==
    {Scalar(k, 0) : k \in ItemKinds \ {"tuple"}}
        \cup {Container("tuple", [i \in 1..n |-> Scalar("int", 0)]) : n \in 0..2}
ItemSeqs == UNION {[1..n -> Items] : n \in 0..MaxItems}

InitConvert ==
    /\ AxisIdle
    /\ \E hasfreq \in BOOLEAN, f \in ConvertFreqs :
          \/ \E k \in ScalarKinds, id \in 0..MaxId :
                call = [fn |-> "convert", values |-> Scalar(k, id),
                        hasfreq |-> hasfreq, f |-> f]
          \/ \E k \in SequenceKinds \cup {"Index"}, items \in ItemSeqs :
                call = [fn |-> "convert", values |-> Container(k, items),
                        hasfreq |-> hasfreq, f |-> f]
    /\ ret = Pending

ApplyConvert ==
    /\ call.fn = "convert"
    /\ ret.exc = "pending"
    /\ ret' = convert(call.values, call.hasfreq, call.f)
    /\ UNCHANGED <<call, axisVars>>

NextConvert == ApplyConvert

SpecConvert == InitConvert /\ [][NextConvert]_vars

(***************************************************************************)
(* The daily finder at the daily frequency on ranges of about 40 days      *)
(* (specification SpecDaily): the ranges start up to MaxDayStart days      *)
(* before or after 1970-01-01, at a whole or a half ordinate.              *)
(***************************************************************************)
MaxDayStart == 200

DaySpans == {39, 40, 41}

InitDaily ==
    /\ AxisIdle
    /\ \E lo \in (-MaxDayStart) .. MaxDayStart, n \in DaySpans,
          a \in 0..1, b \in 0..1 :
          call = [fn |-> "daily", name |-> "_daily_finder", f |-> FR_DAY,
                  vmin |-> (2 * lo) + a, vmax |-> (2 * (lo + n - 1)) + b]
    /\ ret = Pending

ApplyDaily ==
    /\ call.fn = "daily"
    /\ ret.exc = "pending"
    /\ ret' = _daily_finder(call.vmin, call.vmax, call.f)
    /\ UNCHANGED <<call, axisVars>>

NextDaily == ApplyDaily

SpecDaily == InitDaily /\ [][NextDaily]_vars

(***************************************************************************)
(* has_level_label on its own (specification SpecLevelLabel): one call on  *)
(* an index array (at most MaxFlags ascending indices up to MaxIndex) and  *)
(* a lower view limit.                                                     *)
(***************************************************************************)
MaxFlags == 3
MaxIndex == 3

\* the index arrays nonzero() can return
IndexArrays ==
    {s \in UNION {[1..n -> 0..MaxIndex] : n \in 0..MaxFlags} :
        \A j, k \in DOMAIN s : j < k => s[j] < s[k]}

InitLevelLabel ==
    /\ AxisIdle
    /\ call \in [fn : {"has_level_label"}, label_flags : IndexArrays,
                 vmin : FinderStarts]
    /\ ret = Pending

ApplyLevelLabel ==
    /\ call.fn = "has_level_label"
    /\ ret.exc = "pending"
    /\ ret' = [exc |-> "", val |-> has_level_label(call.label_flags, call.vmin)]
    /\ UNCHANGED <<call, axisVars>>

NextLevelLabel == ApplyLevelLabel

SpecLevelLabel == InitLevelLabel /\ [][NextLevelLabel]_vars

(***************************************************************************)
(* A locator or formatter built for a frequency code and run once          *)
(* (specification SpecRunFinder): __init__ asks get_finder for the finder  *)
(* of the code, and the first refresh of the cache runs that finder.       *)
(***************************************************************************)
\* self.finder = get_finder(freq); self.finder(vmin, vmax, self.freq)
run_finder(f, vmin, vmax) ==
    IF get_finder(f).ok THEN finder(get_finder(f).finder, vmin, vmax, f)
    ELSE Raise(get_finder(f).exc)

\* the frequency codes of the frequency registry (pandas.tseries.
\* frequencies): twelve annual and twelve quarterly codes, one for each
\* closing month, the monthly code, seven weekly codes, one for each closing
\* weekday, the business-day, daily, hourly, minutely and secondly codes and
\* the undefined code
FreqCodes ==
    (FR_ANN .. (FR_ANN + 11)) \cup (FR_QTR .. (FR_QTR + 11)) \cup {FR_MTH}
        \cup (FR_WK .. (FR_WK + 6))
        \cup {FR_BUS, FR_DAY, FR_HR, FR_MIN, FR_SEC, FR_UND}

\* the widths of the ranges (vmin, vmin + width), in halves
MaxWidth == 80

RunWidths == {0, 1, 9, MaxWidth}

InitRunFinder ==
    /\ call \in [fn : {"run_finder"}, f : (-MaxCode) .. MaxCode,
                 vmin : FinderStarts,
                 vmax : (-(2 * MaxStart) - 1)
                            .. ((2 * MaxStart) + 1 + MaxWidth)]
    /\ (call.vmax - call.vmin) \in RunWidths
    /\ ret = Pending
    /\ freq = call.f
    /\ axisView = <<0, 0>>
    /\ axisData = <<0, 0>>
    /\ view_interval = None
    /\ date_axis_info = None
    /\ formatdict = [m \in BOOLEAN |-> None]
    /\ lastOp = NoOp
    /\ lastRet = NoRet

\* the finder returns or raises; what it returns is stored in the cache
ApplyRunFinder ==
    /\ call.fn = "run_finder"
    /\ ret.exc = "pending"
    /\ \E r \in {run_finder(call.f, call.vmin, call.vmax)} :
          /\ ret' = r
          /\ date_axis_info' = Assigned(r).cache
    /\ UNCHANGED <<call, freq, axisView, axisData, view_interval, formatdict,
                   lastOp, lastRet>>

NextRunFinder == ApplyRunFinder

SpecRunFinder == InitRunFinder /\ [][NextRunFinder]_vars

(***************************************************************************)
(* Properties of the axis machine (specification Spec).                    *)
(***************************************************************************)
\* the TickInfo of the current view limits, smaller limit first
ViewInfo ==
    LET lo == IF axisView[1] <= axisView[2] THEN axisView[1] ELSE axisView[2]
        hi == IF axisView[1] <= axisView[2] THEN axisView[2] ELSE axisView[1]
    IN  finder(get_finder(freq).finder, lo, hi, freq).info

\* C1: a locator __call__ that follows a __call__ of the same locator, with
\* nothing in between (so the view interval is unchanged), does not run the
\* finder and returns the positions the first call returned.
C1_SecondCallReusesCache ==
    (lastOp.name = "__call__" /\ lastOp.twice) =>
        /\ lastRet.calls = 0
        /\ lastRet.kind = "locs"
        /\ lastRet.locs = lastRet.first.locs

C1_Witness ==
    /\ lastOp.name = "__call__"
    /\ lastOp.twice
    /\ lastRet.calls = 0
    /\ Len(lastRet.locs) > 0

\* C2: after a locator __call__ or a set_locs the cache is present and the
\* stored range is the current view interval; when the call began with a
\* view interval other than the stored range it ran the finder, and the
\* cache is the finder's result for the current interval, smaller limit
\* first.
C2_ChangedViewRebuilds ==
    (lastOp.name \in {"__call__", "set_locs"}) =>
        /\ view_interval = Some(axisView)
        /\ date_axis_info # None
        /\ lastOp.moved =>
              /\ lastRet.calls = 1
              /\ date_axis_info = Some(ViewInfo)

C2_Witness ==
    /\ lastOp.name = "set_locs"
    /\ lastOp.moved
    /\ axisView[2] < axisView[1]
    /\ lastRet.calls = 1
    /\ date_axis_info = Some(ViewInfo)
    /\ Size(ViewInfo) > 1

\* C3: a formatter query returns the label rendered from the format string
\* stored for that position, or the empty string when no map was built yet
\* or the position is not in the map; and a query that follows a query of
\* the same formatter at the same position returns the empty string.
C3_LabelConsumedOnRead ==
    [][lastOp'.name = "format" =>
        LET m == lastOp'.isminor
            x == lastOp'.x
            stored == IF formatdict[m] = None THEN ""
                      ELSE IF x % 2 = 0 /\ (x \div 2) \in DOMAIN formatdict[m][1]
                      THEN formatdict[m][1][x \div 2]
                      ELSE ""
        IN  /\ lastRet'.label = IF stored = "" THEN <<>>
                                ELSE <<stored, x \div 2>>
            /\ (lastOp.name = "format" /\ lastOp.isminor = m /\ lastOp.x = x)
                  => lastRet'.label = <<>>]_vars

C3_Witness ==
    /\ lastOp.name = "format"
    /\ lastOp.twice
    /\ lastRet.label = <<>>
    /\ lastRet.first.label # <<>>

\* C4: after set_locs the label map of a minor formatter has exactly the
\* positions of the cached TickInfo that are minor and not major, that of a
\* major formatter exactly the major positions, each with its format; a
\* minor locator returns every minor position (major or not) and a major
\* locator every major position, in increasing order.
C4_RoleSelectsPositions ==
    /\ (lastOp.name = "set_locs" /\ lastRet.kind # "raise") =>
          LET info == date_axis_info[1]
              m == lastOp.isminor
              sel == {i \in DOMAIN info :
                         IF m THEN info[i].min /\ ~info[i].maj
                         ELSE info[i].maj}
          IN  /\ formatdict[m] # None
              /\ DOMAIN formatdict[m][1] = {info[i].val : i \in sel}
              /\ \A i \in sel : formatdict[m][1][info[i].val] = info[i].fmt
    /\ (lastOp.name = "__call__" /\ lastRet.kind = "locs") =>
          LET info == date_axis_info[1]
              locs == lastRet.locs
              sel == {i \in DOMAIN info :
                         IF lastOp.isminor THEN info[i].min ELSE info[i].maj}
          IN  /\ {locs[k] : k \in DOMAIN locs} = {info[i].val : i \in sel}
              /\ \A j, k \in DOMAIN locs : j < k => locs[j] < locs[k]

C4_Witness ==
    /\ lastOp.name = "set_locs"
    /\ lastOp.isminor
    /\ \E i \in DOMAIN date_axis_info[1] :
          date_axis_info[1][i].min /\ date_axis_info[1][i].maj
    /\ formatdict[TRUE] # None
    /\ DOMAIN formatdict[TRUE][1] # {}

\* C5: autoscale of the major locator returns the first and the last major
\* position of the finder run on the data interval, widened by 1 on each
\* side when they are the same position.
C5_AutoscaleUsesDataInterval ==
    (lastOp.name = "autoscale" /\ ~lastOp.isminor) =>
        LET info == finder(get_finder(freq).finder, axisData[1],
                           axisData[2], freq).info
            major == {info[i].val : i \in {j \in DOMAIN info : info[j].maj}}
        IN  /\ major # {}
            /\ lastRet.kind = "interval"
            /\ \E lo, hi \in major :
                  /\ \A p \in major : lo <= p /\ p <= hi
                  /\ lastRet.locs = IF lo = hi THEN <<lo - 1, hi + 1>>
                                    ELSE <<lo, hi>>

\* the TickInfo of the stored range, smaller limit first
StoredInfo ==
    LET n == Normalize(view_interval[1])
    IN  finder(get_finder(freq).finder, n[1], n[2], freq).info

\* C13: whenever a TickInfo is cached and a range is stored, the cached
\* TickInfo is the finder's result for the stored range, smaller limit
\* first.
C13_CacheMatchesStoredRange ==
    (date_axis_info # None /\ view_interval # None) =>
        date_axis_info = Some(StoredInfo)

(***************************************************************************)
(* Properties of autoscale on a fresh locator (specification               *)
(* SpecAutoscale).                                                         *)
(***************************************************************************)
\* C6: for every supported frequency and every data interval min <= max,
\* autoscale of the (major) locator completes without error and returns an
\* interval (lo, hi) with lo < hi.
C6_AutoscaleNondegenerate ==
    (call.fn = "autoscale" /\ ret.exc # "pending" /\ ~call.isminor) =>
        /\ ret.exc = ""
        /\ ret.kind = "interval"
        /\ ret.locs[1] < ret.locs[2]

(***************************************************************************)
(* Properties of get_finder (specification SpecGetFinder).                 *)
(***************************************************************************)
\* the codes of the group that starts at code g
InGroup(f, g) == g <= f /\ f < g + 1000

\* C7: get_finder maps a code of the annual group to the annual finder, of
\* the quarterly group to the quarterly finder, the monthly code itself to
\* the monthly finder, the undefined code, a code of the weekly group and
\* a code from the business code up to the daily finder, and fails with
\* NotImplementedError, returning no finder, on every other code.
C7_Dispatch ==
    (call.fn = "get_finder" /\ ret.exc # "pending") =>
        LET f == call.f
            expected ==
                IF InGroup(f, FR_ANN) THEN "_annual_finder"
                ELSE IF InGroup(f, FR_QTR) THEN "_quarterly_finder"
                ELSE IF f = FR_MTH THEN "_monthly_finder"
                ELSE IF \/ f = FR_BUS
                        \/ f = FR_UND
                        \/ InGroup(f, FR_WK)
                        \/ f >= FR_BUS
                     THEN "_daily_finder"
                ELSE ""
        IN  IF expected = ""
            THEN ~ret.ok /\ ret.exc = "NotImplementedError" /\ ret.finder = ""
            ELSE ret.ok /\ ret.exc = "" /\ ret.finder = expected

C7_Witness ==
    /\ call.fn = "get_finder"
    /\ InGroup(call.f, FR_MTH)
    /\ call.f # FR_MTH
    /\ ret.exc = "NotImplementedError"

(***************************************************************************)
(* Properties of the finders (specification SpecFinder).                   *)
(***************************************************************************)
Floor(h) == h \div 2

\* whether the positions of info are lo, lo + 1, ..., hi, one entry each,
\* in increasing order
PositionsAre(info, lo, hi) ==
    /\ DOMAIN info = 0 .. (hi - lo)
    /\ \A i \in DOMAIN info : info[i].val = lo + i

\* C8 as claimed: the positions of the TickInfo a finder returns are
\* floor(vmin), floor(vmin) + 1, ..., floor(vmax).
C8_PositionsFloor ==
    (call.fn = "finder" /\ ret.exc = "") =>
        PositionsAre(ret.info, Floor(call.vmin), Floor(call.vmax))

\* C8, amended: the positions of the TickInfo the daily, the monthly and the
\* quarterly finder return are int(vmin), int(vmin) + 1, ..., int(vmax),
\* where int drops the fraction (rounds toward zero); those of the annual
\* finder are int(vmin), ..., int(vmax + 1).
C8_PositionsTruncated ==
    (call.fn = "finder" /\ ret.exc = "") =>
        PositionsAre(ret.info, ToInt(call.vmin),
                     IF call.name = "_annual_finder"
                     THEN ToInt(call.vmax + 2)
                     ELSE ToInt(call.vmax))

C8_Witness ==
    /\ call.fn = "finder"
    /\ ret.exc = ""
    /\ call.name = "_annual_finder"
    /\ call.vmin < 0
    /\ HasFraction(call.vmin)
    /\ ret.info[0].val = Floor(call.vmin) + 1
    /\ Size(ret.info) = ToInt(call.vmax) - ToInt(call.vmin) + 2

\* whether the monthly finder was run on a range of 30 months
Span30 ==
    /\ call.fn = "finder"
    /\ call.name = "_monthly_finder"
    /\ ret.exc = ""
    /\ ToInt(call.vmax) - ToInt(call.vmin) + 1 = 30

\* C10 as claimed: on a range of 30 months the monthly finder marks the
\* year starts major with format '%b\n%Y', every position minor, gives the
\* July positions format '%b' and every other position the empty format.
C10_Span30FourYearBand ==
    Span30 =>
        \A i \in DOMAIN ret.info :
            LET r == ret.info[i]
            IN  /\ r.maj = (r.val % 12 = 0)
                /\ r.min
                /\ r.fmt = IF r.val % 12 = 0 THEN "%b\n%Y"
                           ELSE IF r.val % 12 = 6 THEN "%b"
                           ELSE ""

\* C10, amended: on a range of 30 months the monthly finder follows the 'at
\* most 2.5 years' band: it marks the year starts major with format
\* '%b\n%Y', every position minor, gives the quarter starts (ordinal % 3 =
\* 0) that are not year starts format '%b' and every other position the
\* empty format.
C10_Span30QuarterLabels ==
    Span30 =>
        \A i \in DOMAIN ret.info :
            LET r == ret.info[i]
            IN  /\ r.maj = (r.val % 12 = 0)
                /\ r.min
                /\ r.fmt = IF r.val % 12 = 0 THEN "%b\n%Y"
                           ELSE IF r.val % 3 = 0 THEN "%b"
                           ELSE ""

C10_Witness ==
    /\ Span30
    /\ \E i \in DOMAIN ret.info :
          ret.info[i].val % 12 = 3 /\ ret.info[i].fmt = "%b"
    /\ \E i \in DOMAIN ret.info :
          ret.info[i].val % 12 = 0 /\ ret.info[i].fmt = "%b\n%Y"

(***************************************************************************)
(* Properties of PeriodConverter.convert (specification SpecConvert).      *)
(***************************************************************************)
\* whether convert was run on a single value (no list, tuple, ndarray or
\* Index)
SingleValue ==
    /\ call.fn = "convert"
    /\ ret.exc # "pending"
    /\ call.values.kind \in ScalarKinds

\* what convert does to a single value that is numeric, None, or a period,
\* string, datetime, date or time, and on an axis without a frequency
ConvertsKnown ==
    LET v == call.values
    IN  IF ~call.hasfreq THEN ret.exc # "" /\ ret.val = None
        ELSE /\ v.kind \in NumericKinds => ret = Returns(v)
             /\ v.kind = "None" => ret = Returns(v)
             /\ v.kind \in ValidKinds =>
                   /\ ret.exc = ""
                   /\ ret.val[1].kind = "ordinal"
                   /\ ret.val[1].id = v.id
                   /\ ret.val[1].freq = call.f

\* C9 as claimed: on an axis with a frequency convert returns a numeric
\* value unchanged, None for None, the period ordinal for a period, string,
\* datetime, date or time, and fails with ValueError on a single value of
\* any other kind; on an axis without a frequency it fails.
C9_OtherKindRaises ==
    SingleValue =>
        /\ ConvertsKnown
        /\ (call.hasfreq /\ call.values.kind = "other") =>
              ret = Fails("ValueError")

\* C9, amended: as claimed, except that a single value of any other kind is
\* returned unchanged, without an error.
C9_OtherKindReturned ==
    SingleValue =>
        /\ ConvertsKnown
        /\ (call.hasfreq /\ call.values.kind = "other") =>
              ret = Returns(call.values)

C9_Witness ==
    /\ SingleValue
    /\ call.hasfreq
    /\ call.values.kind = "other"
    /\ ret.exc = ""
    /\ ret.val = Some(call.values)

(***************************************************************************)
(* Properties of the daily finder on 40 days (specification SpecDaily).    *)
(***************************************************************************)
\* whether the period at ordinal p starts a new value of the field
Breaks(field, p, f) == Field(field, p, f) # Field(field, p - 1, f)

\* the indices of the range at which a month starts
MonthStarts(lo, n, f) == {i \in 0..(n - 1) : Breaks("month", lo + i, f)}

\* whether the daily finder was run at the daily frequency on a range of 40
\* days that holds exactly one month start
Daily40 ==
    /\ call.fn = "daily"
    /\ ret.exc = ""
    /\ ToInt(call.vmax) - ToInt(call.vmin) + 1 = 40
    /\ Cardinality(MonthStarts(ToInt(call.vmin), 40, call.f)) = 1

\* C11 as claimed: on 40 days that cross one month boundary the month start
\* is major with format '%d\n%b' ('%d\n%b\n%Y' when it is a year start) and
\* every other position has format '%d'.
C11_MonthStartDayLabels ==
    Daily40 =>
        \A i \in DOMAIN ret.info :
            LET r == ret.info[i]
            IN  IF Breaks("month", r.val, call.f)
                THEN /\ r.maj
                     /\ r.fmt = IF Breaks("year", r.val, call.f)
                                THEN "%d\n%b\n%Y" ELSE "%d\n%b"
                ELSE r.fmt = "%d"

\* C11, amended: on 40 days that hold one month start, the month start is
\* major and has format '\n\n%b\n%Y', whether or not it is a year start;
\* every other week start (a position whose week number differs from that
\* of the day before) has format '%d' and every other position the empty
\* format.
C11_MonthStartWeekLabels ==
    Daily40 =>
        \A i \in DOMAIN ret.info :
            LET r == ret.info[i]
            IN  IF Breaks("month", r.val, call.f)
                THEN r.maj /\ r.fmt = "\n\n%b\n%Y"
                ELSE r.fmt = IF Breaks("week", r.val, call.f) THEN "%d"
                             ELSE ""

C11_Witness ==
    /\ Daily40
    /\ \E k \in MonthStarts(ToInt(call.vmin), 40, call.f) :
          /\ k > 0
          /\ ret.info[k].maj
          /\ ret.info[k].fmt = "\n\n%b\n%Y"
    /\ \E i \in DOMAIN ret.info : ret.info[i].fmt = "%d"
    /\ \E i \in DOMAIN ret.info : ret.info[i].fmt = ""

(***************************************************************************)
(* Properties of has_level_label (specification SpecLevelLabel).           *)
(***************************************************************************)
\* whether has_level_label has returned
LevelLabelDone == call.fn = "has_level_label" /\ ret.exc = ""

\* whether the index array is the single index 0 and vmin is not an integer
FirstTickHidden ==
    /\ Len(call.label_flags) = 1
    /\ call.label_flags[1] = 0
    /\ call.vmin % 2 # 0

\* C12 as claimed: has_level_label returns False exactly when the index
\* array is the single index 0 and vmin is not an integer, and True on
\* every other input.
C12_FalseOnlyForHiddenFirst ==
    LevelLabelDone => (ret.val = FALSE <=> FirstTickHidden)

\* C12, amended: has_level_label returns False exactly when the index array
\* is empty, or is the single index 0 while vmin is not an integer, and True
\* on every other input.
C12_FalseForEmptyOrHiddenFirst ==
    LevelLabelDone =>
        (ret.val = FALSE <=> (Len(call.label_flags) = 0 \/ FirstTickHidden))

C12_Witness ==
    /\ LevelLabelDone
    /\ call.label_flags = <<>>
    /\ ret.val = FALSE

====
